---------------------------- MODULE Spec2Model ----------------------------
(* A model of the Source class of src/src/index.ts: the connection state  *)
(* machine, the incremental chunk parser and the listener registry and    *)
(* dispatcher. Text is a sequence of one-character strings.               *)
EXTENDS Integers, Sequences, FiniteSets, TLC

VARIABLES readyState, reader, progress, chunk, listeners, handlers, log,
          pc, chunks, nread, nops, closes

vars == <<readyState, reader, progress, chunk, listeners, handlers, log,
          pc, chunks, nread, nops, closes>>

(* ------------------------------ bounds -------------------------------- *)
\* user API calls (listener registration, handler assignment) per run
MaxOps == 2
\* user close() calls per run
MaxCloses == 2
\* chunks per stream of chosen chunks
MaxChunks == 2
\* lines per generated stream text
MaxLines == 2
\* cuts of a stream text into chunks
MaxCuts == 1

(* -------------------------- program constants ------------------------- *)
INITIALIZING == -1
CONNECTING == 0
OPEN == 1
CLOSED == 2

LF == "\n"
CR == "\r"
FIELD_SEPARATOR == ":"

\* JavaScript's null and undefined, as values no text can equal
Null == <<"null">>
Undefined == <<"undefined">>

(* ------------------------------ strings ------------------------------- *)
Min(S) == CHOOSE x \in S : \A y \in S : x <= y
Max(S) == CHOOSE x \in S : \A y \in S : x >= y

\* the white space String.prototype.trim strips, within the model's alphabet
IsWhiteSpace(c) == c \in {" ", "\t", LF, CR}

trimLeft(s) ==
    LET keep == {i \in 1..Len(s) : ~IsWhiteSpace(s[i])}
    IN  IF keep = {} THEN <<>> ELSE SubSeq(s, Min(keep), Len(s))

trimEnd(s) ==
    LET keep == {i \in 1..Len(s) : ~IsWhiteSpace(s[i])}
    IN  IF keep = {} THEN <<>> ELSE SubSeq(s, 1, Max(keep))

trim(s) == trimLeft(trimEnd(s))

\* String.prototype.indexOf for one character: 0-based, -1 when absent
indexOf(s, c) ==
    LET at == {i \in 1..Len(s) : s[i] = c}
    IN  IF at = {} THEN -1 ELSE Min(at) - 1

\* String.prototype.substring(from) and substring(from, to), 0-based
substringFrom(s, from) ==
    IF from >= Len(s) THEN <<>> ELSE SubSeq(s, from + 1, Len(s))

substring(s, from, to) == SubSeq(s, from + 1, to)

\* the length of the match of (\r\n|\r|\n) at 1-based position q, 0 when none
TermLen(s, q) ==
    IF q > Len(s) THEN 0
    ELSE IF s[q] = CR /\ q < Len(s) /\ s[q + 1] = LF THEN 2
    ELSE IF s[q] = CR \/ s[q] = LF THEN 1
    ELSE 0

\* the match of /(\r\n|\r|\n){2}/ at position q: its length (0: no match) and
\* the text the group captured, which is that of its second iteration. The
\* first iteration tries \r\n first and backtracks to \r alone when no
\* terminator follows the \r\n.
MatchBlank(s, q) ==
    IF TermLen(s, q) = 2 /\ TermLen(s, q + 2) > 0
    THEN [len |-> 2 + TermLen(s, q + 2),
          cap |-> SubSeq(s, q + 2, q + 1 + TermLen(s, q + 2))]
    ELSE IF TermLen(s, q) > 0 /\ TermLen(s, q + 1) > 0
    THEN [len |-> 1 + TermLen(s, q + 1),
          cap |-> SubSeq(s, q + 1, q + TermLen(s, q + 1))]
    ELSE [len |-> 0, cap |-> <<>>]

RECURSIVE SplitBlankFrom(_, _, _, _)
SplitBlankFrom(s, p, q, acc) ==
    IF q > Len(s) THEN Append(acc, SubSeq(s, p, Len(s)))
    ELSE LET m == MatchBlank(s, q)
         IN  IF m.len = 0 THEN SplitBlankFrom(s, p, q + 1, acc)
             ELSE SplitBlankFrom(s, q + m.len, q + m.len,
                                 acc \o <<SubSeq(s, p, q - 1), m.cap>>)

\* data.split(/(\r\n|\r|\n){2}/g): the pieces between the matches, with the
\* captured text of each match spliced in after the piece before it
SplitBlank(s) == SplitBlankFrom(s, 1, 1, <<>>)

\* the length of the match of /\n|\r\n|\r/ at position q
LineTermLen(s, q) ==
    IF q > Len(s) THEN 0
    ELSE IF s[q] = LF THEN 1
    ELSE IF s[q] = CR /\ q < Len(s) /\ s[q + 1] = LF THEN 2
    ELSE IF s[q] = CR THEN 1
    ELSE 0

RECURSIVE SplitLinesFrom(_, _, _, _)
SplitLinesFrom(s, p, q, acc) ==
    IF q > Len(s) THEN Append(acc, SubSeq(s, p, Len(s)))
    ELSE LET n == LineTermLen(s, q)
         IN  IF n = 0 THEN SplitLinesFrom(s, p, q + 1, acc)
             ELSE SplitLinesFrom(s, q + n, q + n, Append(acc, SubSeq(s, p, q - 1)))

\* chunk.split(/\n|\r\n|\r/)
SplitLines(s) == SplitLinesFrom(s, 1, 1, <<>>)

(* ------------------------------ parser -------------------------------- *)
\* the own keys of the accumulator e of parseEventChunk
OwnFields == {<<"i", "d">>, <<"r", "e", "t", "r", "y">>, <<"d", "a", "t", "a">>,
              <<"e", "v", "e", "n", "t">>, <<"s", "s", "e", "_", "i", "d">>}

\* keys e inherits from Object.prototype, which "field in e" accepts too
InheritedFields == {<<"t", "o", "S", "t", "r", "i", "n", "g">>}

FieldInE(field) == field \in OwnFields \cup InheritedFields

MESSAGE == <<"m", "e", "s", "s", "a", "g", "e">>

NewRecord == [id |-> Null, retry |-> Null, data |-> <<>>, event |-> MESSAGE,
              sse_id |-> <<>>]

\* the body of the forEach over the lines of a record
ParseLine(e, rawLine) ==
    LET line == trimEnd(rawLine)
        index == indexOf(line, FIELD_SEPARATOR)
        field == substring(line, 0, index)
        value == trimLeft(substringFrom(line, index + 1))
    IN  IF index <= 0 THEN e
        ELSE IF ~FieldInE(field) THEN e
        ELSE IF field = <<"d", "a", "t", "a">> THEN [e EXCEPT !.data = @ \o value]
        ELSE IF field = <<"i", "d">> THEN [e EXCEPT !.id = value]
        ELSE IF field = <<"r", "e", "t", "r", "y">> THEN [e EXCEPT !.retry = value]
        ELSE IF field = <<"e", "v", "e", "n", "t">> THEN [e EXCEPT !.event = value]
        ELSE IF field = <<"s", "s", "e", "_", "i", "d">> THEN [e EXCEPT !.sse_id = value]
        ELSE e

RECURSIVE ParseLines(_, _)
ParseLines(e, lines) ==
    IF lines = <<>> THEN e ELSE ParseLines(ParseLine(e, Head(lines)), Tail(lines))

\* new CustomEvent(type): not cancelable, no payload yet
CustomEvent(type) ==
    [type |-> type, data |-> Undefined, id |-> Undefined, sse_id |-> Undefined,
     readyState |-> <<>>, cancelable |-> FALSE, defaultPrevented |-> FALSE]

\* parseEventChunk giving no event for a chunk that sets no field
parseEventChunkOfFields(c) ==
    IF Len(c) = 0 \/ ParseLines(NewRecord, SplitLines(c)) = NewRecord THEN <<>>
    ELSE LET e == ParseLines(NewRecord, SplitLines(c))
         IN  <<[CustomEvent(e.event) EXCEPT
                  !.data = e.data, !.id = e.id, !.sse_id = e.sse_id]>>

\* parseEventChunk: the event of a record, or none (<<>>) for an empty chunk
parseEventChunk(c) ==
    IF Len(c) = 0 THEN <<>>
    ELSE LET e == ParseLines(NewRecord, SplitLines(c))
         IN  <<[CustomEvent(e.event) EXCEPT
                  !.data = e.data, !.id = e.id, !.sse_id = e.sse_id]>>

(* ----------------------------- dispatcher ----------------------------- *)
READYSTATECHANGE == <<"r", "e", "a", "d", "y", "s", "t", "a", "t", "e",
                      "c", "h", "a", "n", "g", "e">>
OPEN_EVENT == <<"o", "p", "e", "n">>
ERROR_EVENT == <<"e", "r", "r", "o", "r">>

\* the failures init hands to onStreamFailure
StatusError == <<"SSESourceException(statusText, status)">>
NoBodyError == <<"SSESourceException(The response did not have a body)">>
ThrownError == <<"thrown">>

\* Callbacks, by what they do when invoked: "f" only observes, "closer" calls
\* close() on the instance, "preventer" calls preventDefault() on the event.
\* "default" is the () => {} that the fields onmessage, onerror and onopen
\* are initialised to. These are the ones the user registers:
Callbacks == {"f", "closer"}

\* Event.prototype.preventDefault: sets the flag of a cancelable event only
preventDefault(ev) ==
    IF ev.cancelable THEN [ev EXCEPT !.defaultPrevented = TRUE] ELSE ev

\* JSON.parse within the model's alphabet: a text of digits decodes to a
\* number, anything else throws
IsJson(s) == Len(s) > 0 /\ \A i \in 1..Len(s) : s[i] \in {"1", "2"}
JsonParse(s) == <<"number">> \o s

formatDataOnEvent(ev) ==
    IF ev.data \in {<<>>, Null, Undefined} THEN [ev EXCEPT !.data = Null]
    ELSE IF IsJson(ev.data) THEN [ev EXCEPT !.data = JsonParse(@)]
    ELSE ev

\* an entry of the log: a dispatch, or the call of a handler, of a listener
\* or of a wrapper built by on(); d is the log index of the dispatch entry
\* the call belongs to, at the value of readyState at that moment
LogEntry(o, via, cb, ev, d) ==
    [via |-> via, cb |-> cb, ev |-> ev, at |-> o.readyState, d |-> d]

RECURSIVE dispatchEvent(_, _)
RECURSIVE setReadyState(_, _)
RECURSIVE close(_)
RECURSIVE Invoke(_, _, _, _, _)
RECURSIVE Every(_, _, _, _)

\* one call of a handler or listener: what the callback does to the instance
\* and to the event it is given
Invoke(o, ev, fn, via, d) ==
    LET o1 == [o EXCEPT !.log = Append(@, LogEntry(o, via, fn, ev, d))]
    IN  IF fn = "closer" THEN [o |-> close(o1), ev |-> ev]
        ELSE IF fn = "preventer" THEN [o |-> o1, ev |-> preventDefault(ev)]
        ELSE [o |-> o1, ev |-> ev]

\* a listener of the registry: the function itself, or the _listener wrapper
\* that on() builds around it
InvokeListener(o, ev, l, d) ==
    IF l.wrapped THEN Invoke(o, formatDataOnEvent(ev), l.fn, "wrapper", d)
    ELSE Invoke(o, ev, l.fn, "listener", d)

\* every() walking the listeners from the last registered to the first
RECURSIVE EveryFromLast(_, _, _, _)
EveryFromLast(o, ev, list, d) ==
    IF list = <<>> THEN [o |-> o, ret |-> TRUE]
    ELSE LET r == InvokeListener(o, ev, list[Len(list)], d)
         IN  IF r.ev.defaultPrevented THEN [o |-> r.o, ret |-> FALSE]
             ELSE EveryFromLast(r.o, r.ev, SubSeq(list, 1, Len(list) - 1), d)

\* this.listeners[event.type].every(...)
Every(o, ev, list, d) ==
    IF list = <<>> THEN [o |-> o, ret |-> TRUE]
    ELSE LET r == InvokeListener(o, ev, Head(list), d)
         IN  IF r.ev.defaultPrevented THEN [o |-> r.o, ret |-> FALSE]
             ELSE Every(r.o, r.ev, Tail(list), d)

dispatchEvent(o, event) ==
    IF event = <<>> THEN [o |-> o, ret |-> TRUE]
    ELSE LET ev == event[1]
             d  == Len(o.log) + 1
             o1 == [o EXCEPT !.log = Append(@, LogEntry(o, "dispatch", "", ev, d))]
             own == ev.type \in DOMAIN o1.handlers
             h  == IF own THEN Invoke(o1, ev, o1.handlers[ev.type], "handler", d)
                   ELSE [o |-> o1, ev |-> ev]
         IN  IF own /\ h.ev.defaultPrevented THEN [o |-> h.o, ret |-> FALSE]
             ELSE IF ev.type \in DOMAIN h.o.listeners
             THEN Every(h.o, h.ev, h.o.listeners[ev.type], d)
             ELSE [o |-> h.o, ret |-> TRUE]

(* -------------------------- state machine ----------------------------- *)
setReadyState(o, state) ==
    LET event == [CustomEvent(READYSTATECHANGE) EXCEPT !.readyState = <<state>>]
    IN  dispatchEvent([o EXCEPT !.readyState = state], <<event>>).o

\* close() taking a released reader, not the state, as the sign of a closed
\* instance
closeByReader(o) ==
    IF ~o.reader THEN o
    ELSE setReadyState([o EXCEPT !.reader = FALSE], CLOSED)

close(o) ==
    IF o.readyState = CLOSED THEN o
    ELSE setReadyState([o EXCEPT !.reader = FALSE], CLOSED)

\* checkStreamClosed leaving the state as it is at the end of the stream
checkStreamClosedKeeping(o, done) == o

checkStreamClosed(o, done) ==
    IF done THEN setReadyState(o, CLOSED) ELSE o

onStreamFailure(o, error) ==
    LET event == [CustomEvent(ERROR_EVENT) EXCEPT !.data = error]
    IN  close(dispatchEvent(o, <<event>>).o)

\* the body of the forEach over the parts of a chunk
OnPart(o, part) ==
    IF Len(trim(part)) = 0
    THEN [dispatchEvent(o, parseEventChunk(trim(o.chunk))).o EXCEPT !.chunk = <<>>]
    ELSE [o EXCEPT !.chunk = @ \o part]

RECURSIVE ForEachPart(_, _)
ForEachPart(o, parts) ==
    IF parts = <<>> THEN o ELSE ForEachPart(OnPart(o, Head(parts)), Tail(parts))

\* onStreamProgress announcing open for every chunk read before CLOSED
onStreamProgressAlwaysOpen(o, value) ==
    LET o1 == IF o.readyState # CLOSED
              THEN setReadyState(
                     dispatchEvent(o, <<[CustomEvent(OPEN_EVENT) EXCEPT !.data = Null]>>).o,
                     OPEN)
              ELSE o
        data == substringFrom(value, o1.progress)
    IN  ForEachPart([o1 EXCEPT !.progress = @ + Len(data)], SplitBlank(data))

\* onStreamProgress scanning the whole of every chunk
onStreamProgressWhole(o, value) ==
    LET o1 == IF o.readyState = CONNECTING
              THEN setReadyState(
                     dispatchEvent(o, <<[CustomEvent(OPEN_EVENT) EXCEPT !.data = Null]>>).o,
                     OPEN)
              ELSE o
    IN  ForEachPart([o1 EXCEPT !.progress = @ + Len(value)], SplitBlank(value))

onStreamProgress(o, value) ==
    LET o1 == IF o.readyState = CONNECTING
              THEN setReadyState(
                     dispatchEvent(o, <<[CustomEvent(OPEN_EVENT) EXCEPT !.data = Null]>>).o,
                     OPEN)
              ELSE o
        data == substringFrom(value, o1.progress)
    IN  ForEachPart([o1 EXCEPT !.progress = @ + Len(data)], SplitBlank(data))

onStreamLoaded(o, value) ==
    LET o1 == onStreamProgress(o, value)
    IN  [dispatchEvent(o1, parseEventChunk(o1.chunk)).o EXCEPT !.chunk = <<>>]

(* ------------------------------ registry ------------------------------ *)
Listener(fn) == [fn |-> fn, wrapped |-> FALSE]
Wrapper(fn) == [fn |-> fn, wrapped |-> TRUE]

Contains(list, x) == \E i \in 1..Len(list) : list[i] = x

RECURSIVE Without(_, _)
Without(list, x) ==
    IF list = <<>> THEN <<>>
    ELSE IF Head(list) = x THEN Without(Tail(list), x)
    ELSE <<Head(list)>> \o Without(Tail(list), x)

\* listeners with type mapped to list, and with type deleted
Put(ls, type, list) ==
    [t \in DOMAIN ls \cup {type} |-> IF t = type THEN list ELSE ls[t]]
Delete(ls, type) == [t \in DOMAIN ls \ {type} |-> ls[t]]

\* addEventListener pushing the listener without looking for it in the list
addEventListenerAlways(o, type, listener) ==
    LET cur == IF type \in DOMAIN o.listeners THEN o.listeners[type] ELSE <<>>
    IN  [o EXCEPT !.listeners = Put(@, type, Append(cur, listener))]

addEventListener(o, type, listener) ==
    LET cur == IF type \in DOMAIN o.listeners THEN o.listeners[type] ELSE <<>>
    IN  [o EXCEPT !.listeners =
           Put(@, type, IF Contains(cur, listener) THEN cur ELSE Append(cur, listener))]

removeEventListener(o, type, listener) ==
    IF type \notin DOMAIN o.listeners THEN o
    ELSE LET filtered == Without(o.listeners[type], listener)
         IN  IF Len(filtered) = 0 THEN [o EXCEPT !.listeners = Delete(@, type)]
             ELSE [o EXCEPT !.listeners = Put(@, type, filtered)]

\* on() pushing its wrapper onto the list of the type instead of replacing it
onAppending(o, event, listener) ==
    LET cur == IF event \in DOMAIN o.listeners THEN o.listeners[event] ELSE <<>>
    IN  [o EXCEPT !.listeners = Put(@, event, Append(cur, Wrapper(listener)))]

on(o, event, listener) == [o EXCEPT !.listeners = Put(@, event, <<Wrapper(listener)>>)]

off(o, event) == [o EXCEPT !.listeners = Delete(@, event)]

(* ------------------------- the instance's state ------------------------ *)
Obj == [readyState |-> readyState, reader |-> reader, progress |-> progress,
        chunk |-> chunk, listeners |-> listeners, handlers |-> handlers,
        log |-> log]

Becomes(o) == /\ readyState' = o.readyState
              /\ reader' = o.reader
              /\ progress' = o.progress
              /\ chunk' = o.chunk
              /\ listeners' = o.listeners
              /\ handlers' = o.handlers
              /\ log' = o.log

\* the instance as the field initialisers leave it, before init() runs
Fresh == [readyState |-> INITIALIZING, reader |-> FALSE, progress |-> 0,
          chunk |-> <<>>, listeners |-> [t \in {} |-> <<>>],
          handlers |-> [t \in {MESSAGE, ERROR_EVENT, OPEN_EVENT} |-> "default"],
          log |-> <<>>]

\* the constructor: init() up to its first await, the fetch
Constructed == setReadyState(Fresh, CONNECTING)

(* ------------------------------ streams ------------------------------- *)
D(c) == <<"d", "a", "t", "a", ":", c>>

\* what the transport delivers in the runs of the state machine
LifecycleStreams ==
    { <<>>,
      << D("a") \o <<LF, LF>> \o D("b") \o <<LF, LF>> >>,
      << D("a") \o <<LF, LF>>, D("b") \o <<LF, LF>> \o D("c") \o <<LF, LF>> >> }

\* the lines and the line endings the generated stream texts are made of; a
\* line without an ending is the last of its text
Lines == { D("a"),
           <<"d", "a", "t", "a", ":", " ", "b", " ">>,
           <<"i", "d", ":", "1">>,
           <<"e", "v", "e", "n", "t", ":", "x">>,
           <<":", "c">>,
           <<"s", "s", "e", "_", "i", "d", ":", "7">>,
           <<"k", ":", "1">> }

Endings == { <<>>, <<LF>>, <<CR>>, <<CR, LF>>, <<LF, LF>>, <<CR, LF, CR, LF>> }

RECURSIVE Texts(_)
Texts(n) ==
    IF n = 0 THEN {<<>>}
    ELSE LET shorter == Texts(n - 1)
         IN  shorter \cup
             UNION { { l \o e \o t : l \in Lines, t \in IF e = <<>> THEN {<<>>} ELSE shorter } :
                     e \in Endings }

\* the ways the transport may cut a text into chunks, with at most n cuts
RECURSIVE CutsOf(_, _)
CutsOf(text, n) ==
    IF n = 0 THEN {<<text>>}
    ELSE CutsOf(text, n - 1) \cup
         UNION { { <<SubSeq(text, 1, k)>> \o rest :
                     rest \in CutsOf(SubSeq(text, k + 1, Len(text)), n - 1) } :
                 k \in 1..(Len(text) - 1) }

ParseStreams(lines, cuts) ==
    {<<>>} \cup UNION { CutsOf(text, cuts) : text \in Texts(lines) \ {<<>>} }

Starts(o) == /\ readyState = o.readyState
             /\ reader = o.reader
             /\ progress = o.progress
             /\ chunk = o.chunk
             /\ listeners = o.listeners
             /\ handlers = o.handlers
             /\ log = o.log

InitWith(streams) ==
    /\ Starts(Constructed)
    /\ pc = "fetch"
    /\ chunks \in streams
    /\ nread = 0
    /\ nops = 0
    /\ closes = 0

Init == InitWith(LifecycleStreams)


(* ------------------------ the steps of init() -------------------------- *)
\* The top of the while loop and the call of this.reader.read(): the loop
\* ends when the instance is closed; read() on a reader that close() has
\* set to null throws a TypeError, which the catch hands to onStreamFailure.
LoopTop(o) ==
    IF o.readyState = CLOSED THEN [o |-> o, pc |-> "done"]
    ELSE IF ~o.reader THEN [o |-> onStreamFailure(o, ThrownError), pc |-> "done"]
    ELSE [o |-> o, pc |-> "read"]

\* fetch resolves: from the response to the first read, or to the failure of
\* a response without a body
AfterFetch(o, ok, body) ==
    LET o1 == IF ~ok THEN onStreamFailure(o, StatusError) ELSE o
        o2 == [o1 EXCEPT !.reader = body]
    IN  IF o2.reader THEN LoopTop(o2)
        ELSE [o |-> onStreamFailure(o2, NoBodyError), pc |-> "done"]

FetchResolves(ok, body) ==
    /\ pc = "fetch"
    /\ LET r == AfterFetch(Obj, ok, body)
       IN  Becomes(r.o) /\ pc' = r.pc
    /\ UNCHANGED <<chunks, nread, nops, closes>>

FetchRejects ==
    /\ pc = "fetch"
    /\ Becomes(onStreamFailure(Obj, ThrownError))
    /\ pc' = "done"
    /\ UNCHANGED <<chunks, nread, nops, closes>>

\* reader.read() resolves with the next chunk
ReadResolvesValue ==
    /\ pc = "read"
    /\ nread < Len(chunks)
    /\ LET r == LoopTop(onStreamLoaded(Obj, chunks[nread + 1]))
       IN  Becomes(r.o) /\ pc' = r.pc
    /\ nread' = nread + 1
    /\ UNCHANGED <<chunks, nops, closes>>

\* reader.read() resolves with done
ReadResolvesDone ==
    /\ pc = "read"
    /\ nread = Len(chunks)
    /\ Becomes(checkStreamClosed(Obj, TRUE))
    /\ pc' = "done"
    /\ UNCHANGED <<chunks, nread, nops, closes>>

\* reader.read() rejects
ReadRejects ==
    /\ pc = "read"
    /\ Becomes(onStreamFailure(Obj, ThrownError))
    /\ pc' = "done"
    /\ UNCHANGED <<chunks, nread, nops, closes>>

(* ------------------------- the calls of the user ----------------------- *)
\* the types the user registers callbacks for
UserTypes == {MESSAGE, OPEN_EVENT, READYSTATECHANGE}

CallClose ==
    /\ closes < MaxCloses
    /\ Becomes(close(Obj))
    /\ closes' = closes + 1
    /\ UNCHANGED <<pc, chunks, nread, nops>>

UserCall(o) ==
    /\ nops < MaxOps
    /\ Becomes(o)
    /\ nops' = nops + 1
    /\ UNCHANGED <<pc, chunks, nread, closes>>

CallAddEventListener ==
    \E type \in UserTypes, fn \in Callbacks :
        UserCall(addEventListener(Obj, type, Listener(fn)))

CallRemoveEventListener ==
    \E type \in UserTypes, fn \in Callbacks :
        UserCall(removeEventListener(Obj, type, Listener(fn)))

CallOn ==
    \E type \in UserTypes, fn \in Callbacks : UserCall(on(Obj, type, fn))

CallOff ==
    \E type \in UserTypes : UserCall(off(Obj, type))

\* source.on<type> = fn
AssignHandler ==
    \E type \in UserTypes, fn \in Callbacks :
        UserCall([Obj EXCEPT !.handlers = Put(@, type, fn)])

Transport ==
    \/ \E ok \in BOOLEAN, body \in BOOLEAN : FetchResolves(ok, body)
    \/ FetchRejects
    \/ ReadResolvesValue
    \/ ReadResolvesDone
    \/ ReadRejects

Next ==
    \/ Transport
    \/ CallClose
    \/ CallAddEventListener
    \/ CallRemoveEventListener
    \/ CallOn
    \/ CallOff
    \/ AssignHandler

Spec == Init /\ [][Next]_vars

\* The parser alone: a generated text, cut into chunks, is delivered whole by
\* a transport that succeeds, to an instance nobody closes.
InitParse == InitWith(ParseStreams(MaxLines, MaxCuts))

NextParse ==
    \/ FetchResolves(TRUE, TRUE)
    \/ ReadResolvesValue
    \/ ReadResolvesDone

SpecParse == InitParse /\ [][NextParse]_vars

\* The registry alone: the user makes the four calls of the registry at any
\* moment while a transport that succeeds delivers two chunks of records,
\* the second longer than the first.
RegistryStreams ==
    { << D("a") \o <<LF, LF>>, D("b") \o <<LF, LF>> \o D("c") \o <<LF, LF>> >> }

InitRegistry == InitWith(RegistryStreams)

NextRegistry ==
    \/ NextParse
    \/ CallAddEventListener
    \/ CallRemoveEventListener
    \/ CallOn
    \/ CallOff

SpecRegistry == InitRegistry /\ [][NextRegistry]_vars

\* The offsets and the segments: a stream of chunks chosen for their lengths
\* and their contents (records, a comment alone, text without a separator
\* as a cut leaves it, white space alone, \r\n endings) is delivered whole
\* to an instance for which the user has added a message listener.
ChunkTexts ==
    { D("a") \o <<LF, LF>>,
      D("a") \o <<LF, LF>> \o D("b") \o <<LF, LF>>,
      <<":", "c", LF, LF>>,
      <<":", "c", LF, LF>> \o D("a") \o <<LF, LF>>,
      <<"i", "d", ":", "1">>,
      <<"a", LF, LF>>,
      <<" ", LF>>,
      D("a") \o <<CR, LF, CR, LF>>,
      <<"k", ":", "1", LF>> \o D("a") }

RECURSIVE ChunkStreams(_)
ChunkStreams(n) ==
    IF n = 0 THEN {<<>>}
    ELSE LET shorter == ChunkStreams(n - 1)
         IN  shorter \cup {Append(st, c) : st \in shorter, c \in ChunkTexts}

InitChunks ==
    /\ Starts(addEventListener(Constructed, MESSAGE, Listener("f")))
    /\ pc = "fetch"
    /\ chunks \in ChunkStreams(MaxChunks)
    /\ nread = 0
    /\ nops = 0
    /\ closes = 0

SpecChunks == InitChunks /\ [][NextParse]_vars

\* The dispatcher under every kind of callback: the user sets handlers and
\* adds listeners, for the four types of the events the instance creates,
\* right after the construction, before the fetch settles; the transport
\* then succeeds or fails in every way.
DispatchTypes == {MESSAGE, OPEN_EVENT, ERROR_EVENT, READYSTATECHANGE}
DispatchCallbacks == {"f", "closer", "preventer"}
DispatchStreams == { <<>>, << D("a") \o <<LF, LF>> >> }

InitDispatch == InitWith(DispatchStreams)

RegisterListener ==
    /\ pc = "fetch"
    /\ \E type \in DispatchTypes, fn \in DispatchCallbacks :
           UserCall(addEventListener(Obj, type, Listener(fn)))

RegisterHandler ==
    /\ pc = "fetch"
    /\ \E type \in DispatchTypes, fn \in DispatchCallbacks :
           UserCall([Obj EXCEPT !.handlers = Put(@, type, fn)])

NextDispatch ==
    \/ Transport
    \/ RegisterListener
    \/ RegisterHandler

SpecDispatch == InitDispatch /\ [][NextDispatch]_vars

\* The read loop under fair scheduling; the user may call close() at any
\* moment.
NextLive ==
    \/ NextDispatch
    \/ CallClose

\* init resumes from its await: the fetch or the read it waits for settles,
\* in whatever way. These are the steps of Transport, which is enabled
\* as long as init has not returned.
InitResumes ==
    /\ pc # "done"
    /\ pc' \in {"read", "done"}
    /\ nread' \in {nread, nread + 1}
    /\ pc' # pc \/ nread' # nread

\* the transport answers every request and every read in the end
SpecLive == InitDispatch /\ [][NextLive]_vars /\ WF_<<pc, nread>>(InitResumes)

(* =========================== the claims =============================== *)
\* what the log holds
IsSynthetic(ev) == ev.sse_id = Undefined
IsRecordEvent(ev) == ev.sse_id # Undefined
Dispatches(l) == {i \in 1..Len(l) : l[i].via = "dispatch"}
StateChanges(l) == {i \in Dispatches(l) : /\ l[i].ev.type = READYSTATECHANGE
                                          /\ IsSynthetic(l[i].ev)}
Announces(l, state) == {i \in StateChanges(l) : l[i].ev.readyState = <<state>>}
Opens(l) == {i \in Dispatches(l) : /\ l[i].ev.type = OPEN_EVENT
                                   /\ IsSynthetic(l[i].ev)
                                   /\ l[i].ev.data = Null}
\* the state the instance was in just before log entry i was written
StateBefore(l, i) == IF i = 1 THEN INITIALIZING ELSE l[i - 1].at

\* C1: CLOSED is terminal: once the instance has been CLOSED (every value
\* readyState takes is the "at" of a log entry) it is CLOSED at every later
\* entry and in the current state.
C1_ClosedIsTerminal ==
    \A i \in 1..Len(log) :
        log[i].at = CLOSED =>
            /\ readyState = CLOSED
            /\ \A j \in i..Len(log) : log[j].at = CLOSED

\* C2: once the instance has been CLOSED, no record event built from stream
\* text is dispatched or delivered.
C2_NoDispatchAfterClosed ==
    \A i \in 1..Len(log) : \A j \in i..Len(log) :
        log[i].at = CLOSED => ~IsRecordEvent(log[j].ev)

\* C3: every readystatechange event carries the new state, and that state is
\* greater than the state held immediately before it was set.
C3_OneChangePerTransition ==
    \A i \in StateChanges(log) :
        /\ log[i].ev.readyState = <<log[i].at>>
        /\ StateBefore(log, i) < log[i].at

\* C4: close() on a CLOSED instance changes nothing and dispatches nothing;
\* close() on any other instance leaves it CLOSED having dispatched exactly
\* one readystatechange event for CLOSED, so that a second close() is the
\* no-op: two calls in a row announce CLOSED once.
C4_CloseStep ==
    closes' = closes + 1 =>
        IF readyState = CLOSED
        THEN UNCHANGED <<readyState, reader, progress, chunk, listeners, handlers, log>>
        ELSE /\ readyState' = CLOSED
             /\ reader' = FALSE
             /\ Cardinality(Announces(log', CLOSED))
                  = Cardinality(Announces(log, CLOSED)) + 1
             /\ \A i \in (Len(log) + 1)..Len(log') : log'[i].ev.type = READYSTATECHANGE
             /\ UNCHANGED <<progress, chunk, listeners, handlers>>

C4_CloseIsIdempotent == [][C4_CloseStep]_vars

\* a second close() was made on a CLOSED instance whose readystatechange
\* listener had itself called close() during the first
C4_Witness ==
    /\ closes = 2
    /\ readyState = CLOSED
    /\ Cardinality(Announces(log, CLOSED)) = 1
    /\ \E i \in 1..Len(log) : /\ log[i].cb = "closer"
                              /\ log[i].ev.type = READYSTATECHANGE

\* C5: the synthetic open event and the transition to OPEN happen at most
\* once, only for a chunk read while CONNECTING, and never when no chunk was
\* received: the instance then never is OPEN.
C5_OpenAtMostOnce ==
    /\ Cardinality(Opens(log)) <= 1
    /\ Cardinality(Announces(log, OPEN)) <= 1
    /\ \A i \in Opens(log) : log[i].at = CONNECTING /\ nread >= 1
    /\ \A i \in Announces(log, OPEN) : Opens(log) # {} /\ i > Max(Opens(log))
    /\ nread = 0 => /\ Opens(log) = {}
                    /\ \A i \in 1..Len(log) : log[i].at # OPEN
                    /\ readyState # OPEN

\* two chunks were read and the stream ended: one open event, one OPEN
C5_Witness ==
    /\ pc = "done"
    /\ nread = 2
    /\ Cardinality(Opens(log)) = 1
    /\ Cardinality(Announces(log, OPEN)) = 1

(* ----------------------- the claims on the parser ---------------------- *)
RECURSIVE Flatten(_)
Flatten(chs) == IF chs = <<>> THEN <<>> ELSE Head(chs) \o Flatten(Tail(chs))

RECURSIVE ReadAll(_, _)
ReadAll(o, chs) ==
    IF chs = <<>> THEN o ELSE ReadAll(onStreamLoaded(o, Head(chs)), Tail(chs))

\* the instance after a successful transport has delivered chs and ended
Delivered(chs) ==
    checkStreamClosed(ReadAll(AfterFetch(Constructed, TRUE, TRUE).o, chs), TRUE)

IsRecordDispatch(entry) == entry.via = "dispatch" /\ IsRecordEvent(entry.ev)

RECURSIVE MapSeq(_, _)
MapSeq(F(_), seq) ==
    IF seq = <<>> THEN <<>> ELSE <<F(Head(seq))>> \o MapSeq(F, Tail(seq))

Fields(ev) == [type |-> ev.type, data |-> ev.data, id |-> ev.id]
AllFields(ev) == [type |-> ev.type, data |-> ev.data, id |-> ev.id, sse_id |-> ev.sse_id]
FieldsOf(entry) == Fields(entry.ev)
AllFieldsOf(entry) == AllFields(entry.ev)

\* the record events dispatched, in order: their type, data and id
Records(l) == MapSeq(FieldsOf, SelectSeq(l, IsRecordDispatch))
\* the same with every field a record gives its event
FullRecords(l) == MapSeq(AllFieldsOf, SelectSeq(l, IsRecordDispatch))

\* The reference reading of a text: its lines, each of \r\n, \r and \n being
\* one line terminator, and its records, the runs of lines between blank
\* lines.
RefTermLen(s, q) ==
    IF q > Len(s) THEN 0
    ELSE IF s[q] = CR /\ q < Len(s) /\ s[q + 1] = LF THEN 2
    ELSE IF s[q] \in {CR, LF} THEN 1
    ELSE 0

RECURSIVE RefLinesFrom(_, _, _, _)
RefLinesFrom(s, p, q, acc) ==
    IF q > Len(s) THEN Append(acc, SubSeq(s, p, Len(s)))
    ELSE LET n == RefTermLen(s, q)
         IN  IF n = 0 THEN RefLinesFrom(s, p, q + 1, acc)
             ELSE RefLinesFrom(s, q + n, q + n, Append(acc, SubSeq(s, p, q - 1)))

RefLines(s) == RefLinesFrom(s, 1, 1, <<>>)

RECURSIVE RefGroup(_, _, _)
RefGroup(lines, cur, acc) ==
    IF lines = <<>> THEN (IF cur = <<>> THEN acc ELSE Append(acc, cur))
    ELSE IF Head(lines) = <<>>
    THEN RefGroup(Tail(lines), <<>>, IF cur = <<>> THEN acc ELSE Append(acc, cur))
    ELSE RefGroup(Tail(lines), Append(cur, Head(lines)), acc)

\* the records of a text, each the sequence of its lines
RefRecords(s) == RefGroup(RefLines(s), <<>>, <<>>)

RECURSIVE JoinLines(_)
JoinLines(lines) ==
    IF lines = <<>> THEN <<>>
    ELSE IF Len(lines) = 1 THEN lines[1]
    ELSE lines[1] \o <<LF>> \o JoinLines(Tail(lines))

BlankLines(s) == {i \in 1..Len(RefLines(s)) : RefLines(s)[i] = <<>>}
HasCR(s) == \E i \in 1..Len(s) : s[i] = CR

\* the reference parse of a record: the name and the value of a field line
RefName(line) == SubSeq(line, 1, indexOf(line, ":"))
RefValue(line) == trimLeft(substringFrom(trimEnd(line), indexOf(line, ":") + 1))
RefIsField(line, name) == indexOf(line, ":") > 0 /\ RefName(line) = name

RECURSIVE RefConcat(_)
RefConcat(lines) ==
    IF lines = <<>> THEN <<>> ELSE RefValue(Head(lines)) \o RefConcat(Tail(lines))

RefLast(lines, default) ==
    IF lines = <<>> THEN default ELSE RefValue(lines[Len(lines)])

RefIsData(line) == RefIsField(line, <<"d", "a", "t", "a">>)
RefIsEvent(line) == RefIsField(line, <<"e", "v", "e", "n", "t">>)
RefIsId(line) == RefIsField(line, <<"i", "d">>)

RefParse(lines) ==
    [type |-> RefLast(SelectSeq(lines, RefIsEvent), MESSAGE),
     data |-> RefConcat(SelectSeq(lines, RefIsData)),
     id   |-> RefLast(SelectSeq(lines, RefIsId), Null)]

\* the event the code's record parser gives a reference record
CodeParse(lines) == Fields(parseEventChunk(JoinLines(lines))[1])

\* C6: however a text is cut into chunks, the record events dispatched are
\* those dispatched when the text arrives as one chunk.
C6_ChunkingEquivalence ==
    pc = "done" =>
        Records(log) = Records(Delivered(<<Flatten(chunks)>>).log)

\* a text all of whose lines are field lines of one of the four names
IsFieldLine(line) ==
    indexOf(line, ":") > 0 /\ SubSeq(line, 1, indexOf(line, ":")) \in
        {<<"i", "d">>, <<"r", "e", "t", "r", "y">>, <<"d", "a", "t", "a">>,
         <<"e", "v", "e", "n", "t">>}
FieldLinesOnly(s) ==
    \A i \in 1..Len(RefLines(s)) : RefLines(s)[i] = <<>> \/ IsFieldLine(RefLines(s)[i])

\* C7: in a single chunk of field lines a record ends exactly at a blank
\* line, each of \r\n, \r and \n being one line terminator: the events
\* dispatched are those of the records between the blank lines, so that the
\* lines on both sides of a single terminator are in the same event.
C7_RecordEndsAtBlankLine ==
    (pc = "done" /\ Len(chunks) = 1 /\ FieldLinesOnly(chunks[1])) =>
        Records(log) = MapSeq(CodeParse, RefRecords(chunks[1]))

\* a text that is one record, from its first character to a blank line
OneTerminatedRecord(s) ==
    /\ Len(RefRecords(s)) = 1
    /\ RefLines(s)[1] # <<>>
    /\ BlankLines(s) = {Len(RefLines(s)) - 1, Len(RefLines(s))}

\* C8: a first chunk holding exactly one record terminated by a blank line
\* gives exactly one record event, that of the reference parse.
C8_SingleRecordParse ==
    (pc = "done" /\ Len(chunks) = 1 /\ OneTerminatedRecord(chunks[1])) =>
        Records(log) = <<RefParse(RefRecords(chunks[1])[1])>>

FourFields == {<<"i", "d">>, <<"r", "e", "t", "r", "y">>, <<"d", "a", "t", "a">>,
               <<"e", "v", "e", "n", "t">>}

\* a text, free of \r, whose first line is a field line of a name other than
\* the four and is followed by a further line of the same record
StartsWithOtherField(s) ==
    /\ ~HasCR(s)
    /\ Len(RefLines(s)) >= 2
    /\ indexOf(RefLines(s)[1], ":") > 0
    /\ RefName(RefLines(s)[1]) \notin FourFields
    /\ RefLines(s)[2] # <<>>

WithoutFirstLine(s) == SubSeq(s, Len(RefLines(s)[1]) + 2, Len(s))

\* C9: a line whose field name is none of id, retry, data and event changes
\* no field of the dispatched events: the events are those of the text
\* without the line.
C9_OtherFieldsIgnored ==
    (pc = "done" /\ Len(chunks) = 1 /\ StartsWithOtherField(chunks[1])) =>
        FullRecords(log) = FullRecords(Delivered(<<WithoutFirstLine(chunks[1])>>).log)

\* a text that is a record ended by a blank line followed by a second record
\* that no line terminator ends
TerminatedThenUnterminated(s) ==
    /\ Len(RefRecords(s)) = 2
    /\ Cardinality(BlankLines(s)) = 1
    /\ RefLines(s)[1] # <<>>

\* C10: for such a text, exactly the two record events are dispatched, in
\* stream order, before the instance is CLOSED.
C10_LastRecordNotLost ==
    (pc = "done" /\ TerminatedThenUnterminated(Flatten(chunks))) =>
        /\ Records(log) = MapSeq(RefParse, RefRecords(Flatten(chunks)))
        /\ readyState = CLOSED
        /\ \A i \in 1..Len(log) : IsRecordDispatch(log[i]) => log[i].at # CLOSED

(* ---------------------- the claims on the dispatcher ------------------- *)
\* the calls of callbacks made for the dispatch logged at index i, in order
RECURSIVE CallsFrom(_, _, _)
CallsFrom(l, i, j) ==
    IF j > Len(l) THEN <<>>
    ELSE (IF l[j].d = i /\ l[j].via # "dispatch"
          THEN <<[via |-> l[j].via, cb |-> l[j].cb]>> ELSE <<>>)
         \o CallsFrom(l, i, j + 1)
CallsOf(l, i) == CallsFrom(l, i, i + 1)

ListenerCall(l) == [via |-> IF l.wrapped THEN "wrapper" ELSE "listener", cb |-> l.fn]

\* the callbacks an instance holds for a type: its handler, then its listeners
Registered(hs, ls, type) ==
    (IF type \in DOMAIN hs THEN <<[via |-> "handler", cb |-> hs[type]]>> ELSE <<>>)
    \o (IF type \in DOMAIN ls THEN MapSeq(ListenerCall, ls[type]) ELSE <<>>)

IsPrefix(s, t) == Len(s) <= Len(t) /\ s = SubSeq(t, 1, Len(s))

\* C11: for every event dispatched in a step, the calls made for it are, in
\* order, a prefix of: the on<type> handler of the instance, then the
\* listeners of the type in registration order; the handler, when the
\* instance has one, is always called, and first. So no listener is called
\* before the handler, out of order or twice.
C11_Step ==
    \A i \in (Len(log) + 1)..Len(log') :
        log'[i].via = "dispatch" =>
            LET type == log'[i].ev.type
                calls == CallsOf(log', i)
            IN  /\ IsPrefix(calls, Registered(handlers, listeners, type))
                /\ type \in DOMAIN handlers => /\ Len(calls) >= 1
                                                /\ calls[1].via = "handler"

C11_HandlerThenListenersInOrder == [][C11_Step]_vars

\* an event was delivered to a handler and then to two different listeners
C11_Witness ==
    \E i \in Dispatches(log) :
        LET calls == CallsOf(log, i)
        IN  /\ Len(calls) = 3
            /\ calls[1].via = "handler"
            /\ calls[2].via = "listener"
            /\ calls[3].via = "listener"
            /\ calls[2].cb # calls[3].cb
            /\ calls = Registered(handlers, listeners, log[i].ev.type)

\* C12: once a handler or listener has called preventDefault() on the event
\* it received, to set its cancellation flag, no further callback is called
\* for that dispatch.
C12_CancellationStopsDelivery ==
    \A j \in 1..Len(log) : \A k \in (j + 1)..Len(log) :
        ~(log[j].cb = "preventer" /\ log[k].d = log[j].d)

(* ----------------------- the claims on the registry -------------------- *)
IsListenerCall(c) == c.via \in {"listener", "wrapper"}

\* the listeners that the dispatch of a new event of the type calls on o
ListenerCallsFor(o, type) ==
    SelectSeq(CallsOf(dispatchEvent(o, <<CustomEvent(type)>>).o.log, Len(o.log) + 1),
              IsListenerCall)

SameListLists(ls1, ls2, types) ==
    \A t \in types : /\ t \in DOMAIN ls1 <=> t \in DOMAIN ls2
                     /\ t \in DOMAIN ls1 => ls1[t] = ls2[t]

\* C13: in every state the calls of on() and addEventListener() reach,
\* on(type, cb) leaves the wrapper of cb as the only listener of type and the
\* lists of the other types as they were, and an event of type dispatched
\* afterwards calls cb, through its wrapper, once, and no other listener.
C13_OnReplacesListeners ==
    \A type \in UserTypes, fn \in Callbacks :
        LET o2 == on(Obj, type, fn)
        IN  /\ type \in DOMAIN o2.listeners
            /\ o2.listeners[type] = <<Wrapper(fn)>>
            /\ SameListLists(listeners, o2.listeners,
                             (DOMAIN listeners \cup DOMAIN o2.listeners) \ {type})
            /\ ListenerCallsFor(o2, type) = <<[via |-> "wrapper", cb |-> fn]>>

\* a listener added for message was called for a first record; on() then
\* replaced it, and the next record went to the callback of on() alone
C13_Witness ==
    /\ nops = 2
    /\ MESSAGE \in DOMAIN listeners
    /\ \E fn \in Callbacks : listeners[MESSAGE] = <<Wrapper(fn)>>
    /\ \E i, j \in Dispatches(log) :
          /\ i < j
          /\ log[i].ev.type = MESSAGE
          /\ log[j].ev.type = MESSAGE
          /\ SelectSeq(CallsOf(log, i), IsListenerCall) = <<[via |-> "listener", cb |-> "f"]>>
          /\ SelectSeq(CallsOf(log, j), IsListenerCall) = <<[via |-> "wrapper", cb |-> "closer"]>>

NoDuplicates(list) == \A i, j \in 1..Len(list) : list[i] = list[j] => i = j

\* C14: after any sequence of addEventListener, removeEventListener, on and
\* off calls no type maps to an empty list and no list holds a callback
\* twice; adding a callback the list of the type holds changes nothing, and
\* removing the only callback of a type removes the entry of the type.
C14_RegistryInvariant ==
    /\ \A t \in DOMAIN listeners : Len(listeners[t]) >= 1 /\ NoDuplicates(listeners[t])
    /\ \A type \in UserTypes, fn \in Callbacks :
          /\ (type \in DOMAIN listeners /\ Contains(listeners[type], Listener(fn)))
                => addEventListener(Obj, type, Listener(fn)) = Obj
          /\ (type \in DOMAIN listeners /\ listeners[type] = <<Listener(fn)>>)
                => type \notin DOMAIN removeEventListener(Obj, type, Listener(fn)).listeners

\* two calls were made and a type has two listeners, in the order of the calls
C14_Witness ==
    /\ nops = 2
    /\ \E t \in DOMAIN listeners :
          /\ Len(listeners[t]) = 2
          /\ listeners[t][1] # listeners[t][2]

(* ----------------------- the claims on the failures -------------------- *)
Failures == {StatusError, NoBodyError, ThrownError}

\* the error events that onStreamFailure dispatched
FailureErrors(l) == {i \in Dispatches(l) : /\ l[i].ev.type = ERROR_EVENT
                                           /\ IsSynthetic(l[i].ev)
                                           /\ l[i].ev.data \in Failures}

\* C15: once a failure of the transport has been handled, having dispatched
\* its error event, readyState is CLOSED, and the error event of every
\* failure comes before the readystatechange event that announces CLOSED.
C15_ErrorThenClosed ==
    \A i \in FailureErrors(log) :
        /\ readyState = CLOSED
        /\ \A j \in Announces(log, CLOSED) : i < j

\* the calls of the callbacks the user has set, the initial no-op handlers
\* left out
UserCalls(l) == {i \in 1..Len(l) : l[i].via # "dispatch" /\ l[i].cb # "default"}

\* C16: whenever a handler or listener of the user is called for the open
\* event or for a record event, the transition to OPEN has been made:
\* readyState is no longer CONNECTING.
C16_OpenBeforeCallbacks ==
    \A i \in UserCalls(log) :
        (IsRecordEvent(log[i].ev) \/ (log[i].ev.type = OPEN_EVENT /\ IsSynthetic(log[i].ev)))
            => log[i].at >= OPEN

\* C20: over the life of an instance onStreamFailure dispatches at most one
\* error event.
C20_AtMostOneError == Cardinality(FailureErrors(log)) <= 1

(* ----------------------- the claim on termination ---------------------- *)
\* a step in which init calls this.reader.read() and waits for its answer
ReadIssued == pc' = "read" /\ (pc = "fetch" \/ nread' = nread + 1)

\* C17: when the transport answers in the end, the instance ends CLOSED with
\* the read loop left, for good, and on a CLOSED instance no read is issued.
C17_EventuallyClosed ==
    /\ <>[](readyState = CLOSED /\ pc = "done")
    /\ [][readyState = CLOSED => ~ReadIssued]_vars

\* a listener closed the instance on the open event, and it ended CLOSED
C17_Witness ==
    /\ pc = "done"
    /\ readyState = CLOSED
    /\ \E i \in 1..Len(log) : /\ log[i].cb = "closer"
                              /\ log[i].ev.type = OPEN_EVENT
                              /\ log[i].via = "listener"

(* ------------------ the claims on offsets and segments ----------------- *)
\* the length of the longest of the first n chunks
Longest(chs, n) == IF n = 0 THEN 0 ELSE Max({Len(chs[k]) : k \in 1..n})

\* of chunk k, the text from the length of the longest earlier chunk onward
ScannedOf(chs, k) == substringFrom(chs[k], Longest(chs, k - 1))

\* the record events a text gives an instance that has read nothing yet
RecordsOfText(t) == Records(onStreamLoaded(AfterFetch(Constructed, TRUE, TRUE).o, t).log)

RECURSIVE RecordsOfScanned(_, _)
RecordsOfScanned(chs, n) ==
    IF n = 0 THEN <<>>
    ELSE RecordsOfScanned(chs, n - 1) \o RecordsOfText(ScannedOf(chs, n))

\* C18: after any sequence of chunks progress is the length of the longest
\* chunk read, and the record events dispatched are those of each chunk's
\* text from index progress (as it was before the chunk) onward: a chunk no
\* longer than the longest before it gives none.
C18_ProgressIsLongestChunk ==
    /\ progress = Longest(chunks, nread)
    /\ progress <= Len(Flatten(SubSeq(chunks, 1, nread)))
    /\ Records(log) = RecordsOfScanned(chunks, nread)
    /\ \A k \in 1..nread :
          Len(chunks[k]) <= Longest(chunks, k - 1) =>
              Len(RecordsOfScanned(chunks, k)) = Len(RecordsOfScanned(chunks, k - 1))

\* a second chunk holding a record, no longer than the first, gave no event
C18_Witness ==
    /\ nread = 2
    /\ Len(chunks[2]) <= Len(chunks[1])
    /\ RecordsOfText(chunks[2]) # <<>>
    /\ progress = Len(chunks[1])
    /\ Records(log) = RecordsOfText(chunks[1])
    /\ Records(log) # <<>>

IsSegment(part) == Len(trim(part)) > 0

\* the pieces, not empty once trimmed, that the split of a text gives
Segments(t) == SelectSeq(SplitBlank(t), IsSegment)

RECURSIVE SegmentsScanned(_, _)
SegmentsScanned(chs, n) ==
    IF n = 0 THEN <<>>
    ELSE SegmentsScanned(chs, n - 1) \o Segments(ScannedOf(chs, n))

\* a segment no line of which, even trimmed, names a field of the record
NoFieldLine(seg) ==
    \A i \in 1..Len(RefLines(seg)) :
        LET t == trim(RefLines(seg)[i])
        IN  indexOf(t, ":") <= 0 \/ ~FieldInE(trim(SubSeq(t, 1, indexOf(t, ":"))))

RecordDispatches(l) == {i \in Dispatches(l) : IsRecordEvent(l[i].ev)}

\* C19: the scanned segments that are not empty once trimmed and the record
\* events dispatched correspond one to one, in order; a segment without a
\* field line gives an event of type message with data "" and id null; and
\* every message event is delivered to onmessage and the message listeners.
C19_EverySegmentGivesAnEvent ==
    LET segs == SegmentsScanned(chunks, nread)
    IN  /\ Len(Records(log)) = Len(segs)
        /\ \A k \in 1..Len(segs) :
              NoFieldLine(segs[k]) =>
                  Records(log)[k] = [type |-> MESSAGE, data |-> <<>>, id |-> Null]
        /\ \A i \in RecordDispatches(log) :
              log[i].ev.type = MESSAGE =>
                  CallsOf(log, i) = <<[via |-> "handler", cb |-> "default"],
                                      [via |-> "listener", cb |-> "f"]>>

\* a record that is a comment alone gave the message listener an event with
\* data ""
C19_Witness ==
    /\ nread >= 1
    /\ chunks[1] = <<":", "c", LF, LF>>
    /\ \E i \in 1..Len(log) :
          /\ log[i].via = "listener"
          /\ log[i].cb = "f"
          /\ IsRecordEvent(log[i].ev)
          /\ Fields(log[i].ev) = [type |-> MESSAGE, data |-> <<>>, id |-> Null]
=============================================================================
